---- MODULE Spec2Model ----
(***************************************************************************)
(* rusty-crypto: a chat bot built on a prefix-command framework.           *)
(* src/main.rs supplies the hooks (before, after, unknown_command,         *)
(* normal_message, delay_action, dispatch_error), the framework            *)
(* configuration (prefix, buckets, registered hooks and commands), main    *)
(* and the price command.  The dispatch pipeline and the rate limiter that *)
(* call them live in the framework library, which is not part of the       *)
(* sources; they are modelled from spec.md sections 4.1 and 4.2.           *)
(***************************************************************************)
EXTENDS Integers, Sequences, FiniteSets, TLC

(* ------------------------------ bounds --------------------------------- *)
MaxInv  == 2        \* invocations in flight at the same time
MaxMsgs == 4        \* inbound messages over a run
MaxTime == 30       \* last instant of the clock, in seconds

Slots     == 1..MaxInv
Channels  == {"c1", "c2"}
TickSteps == {15}

(* --------------------------- configuration ----------------------------- *)
Secrets == {"DISCORD_TOKEN", "ETHERSCAN_API_KEY"}

OffPrefix == "price"
Prefix == "!"

Commands == {"price"}

NoBucket == "none"

\* the bucket "complicated": limit(2).time_span(30).delay(5)
\*   .limit_for(Channel).await_ratelimits(1).delay_action(delay_action)
OffBucketLimit == 2 + 1
BucketLimit == 2
OffBucketTimeSpan == 30 + 30
BucketTimeSpan == 30

OffAfterHook == FALSE
AfterHook == TRUE
UnrecognisedCommandHook == TRUE
NormalMessageHook == TRUE

OffFrameworkAsBuilt == [price_bucket |-> "complicated", on_dispatch_error |-> FALSE]

\* the framework as main builds it: price carries no #[bucket], and no
\* on_dispatch_error hook is registered
FrameworkAsBuilt == [price_bucket |-> NoBucket, on_dispatch_error |-> FALSE]

\* the pipeline of spec.md 4.1 with the command attached to "complicated"
\* and the dispatch_error hook wired in
FrameworkBucketed == [price_bucket |-> "complicated", on_dispatch_error |-> TRUE]

(* ------------------------------ messages ------------------------------- *)
\* message contents as token sequences: the prefix, the command name
Contents == { <<"!", "price">>, <<"!", "unknown">>, <<"price">> }

Names == {"price", "unknown"}

HasPrefix(content) == Len(content) > 0 /\ content[1] = Prefix

ParseName(content) == IF Len(content) >= 2 THEN content[2] ELSE ""

(* ------------------------------- state --------------------------------- *)
VARIABLES
  env,        \* the secrets present in the process environment
  mainpc,     \* position of main
  data,       \* keys present in the client's TypeMap
  counter,    \* CommandCounter: command name -> u64
  lock,       \* holder of the write lock on ctx.data (0: free)
  framework,  \* what the StandardFramework was built with
  now,        \* the clock
  bucket,     \* "complicated" bucket: scope-key -> window state
  hist,       \* per channel, the admission checks made so far
  attempts,   \* per name, the prefixed messages received so far
  nmsgs,      \* inbound messages so far
  inv,        \* the invocations in flight
  last        \* the invocation that completed last

vars == <<env, mainpc, data, counter, lock, framework, now, bucket, hist,
          attempts, nmsgs, inv, last>>

procVars   == <<env, mainpc, data, framework>>
bucketVars == <<now, bucket, hist>>

NoResp == [status |-> 0, body |-> [text |-> "none"]]

NoErr == [kind |-> "none", is_first_try |-> FALSE, secs |-> 0]

\* an Invocation is created per inbound message and discarded after dispatch
Idle == [pc |-> "idle", content |-> <<>>, channel |-> "c1", name |-> "",
         entry |-> 0, resp |-> NoResp, error |-> NoErr, result |-> "none",
         trace |-> <<>>, sent |-> <<>>]

NoLast == [outcome |-> "none", content |-> <<>>, name |-> "", error |-> NoErr, result |-> "none", trace |-> <<>>, sent |-> <<>>]

NoWindow == [exists |-> FALSE, used_count |-> 0, window_start |-> 0,
             rejected |-> FALSE]

InitCommon ==
  /\ mainpc = "token"
  /\ data = {}
  /\ counter = << >>
  /\ lock = 0
  /\ now = 0
  /\ bucket = [c \in Channels |-> NoWindow]
  /\ hist = [c \in Channels |-> <<>>]
  /\ attempts = [n \in Names |-> 0]
  /\ nmsgs = 0
  /\ inv = [i \in Slots |-> Idle]
  /\ last = NoLast

Init == InitCommon /\ env \in SUBSET Secrets /\ framework = FrameworkAsBuilt

InitBucket == InitCommon /\ env = Secrets /\ framework = FrameworkBucketed

(* -------------------------------- main --------------------------------- *)
\* let token = dotenv::var("DISCORD_TOKEN").unwrap();
MainToken ==
  /\ mainpc = "token"
  /\ mainpc' = IF "DISCORD_TOKEN" \in env THEN "client" ELSE "panicked"
  /\ UNCHANGED <<env, data, framework, counter, lock, bucketVars, attempts,
                 nmsgs, inv, last>>

OffMainClient ==
  /\ mainpc = "client"
  /\ mainpc' = "data"
  /\ UNCHANGED <<env, data, framework, counter, lock, bucketVars, attempts,
                 nmsgs, inv, last>>

\* Client::builder(..).framework(framework)
\*   .type_map_insert::<CommandCounter>(HashMap::default())
MainClient ==
  /\ mainpc = "client"
  /\ data' = data \cup {"CommandCounter"}
  /\ counter' = << >>
  /\ mainpc' = "data"
  /\ UNCHANGED <<env, framework, lock, bucketVars, attempts, nmsgs, inv, last>>

\* data.insert::<ShardManagerContainer>(..) under client.data.write()
MainData ==
  /\ mainpc = "data"
  /\ lock = 0
  /\ data' = data \cup {"ShardManagerContainer"}
  /\ mainpc' = "start"
  /\ UNCHANGED <<env, framework, counter, lock, bucketVars, attempts, nmsgs,
                 inv, last>>

\* client.start().await
MainStart ==
  /\ mainpc = "start"
  /\ mainpc' = "running"
  /\ UNCHANGED <<env, data, framework, counter, lock, bucketVars, attempts,
                 nmsgs, inv, last>>

(* ------------------------------- hooks --------------------------------- *)
\* each hook is modelled by the outbound messages it attempts; println! output
\* is not part of the state

\* async fn normal_message: prints only
normal_message(m) == <<>>

OffUnknownCommand(m, unknown_command_name) ==
  << [kind |-> "reply", text |-> "Could not find command"] >>

\* async fn unknown_command: prints only
unknown_command(m, unknown_command_name) == <<>>

\* async fn after: prints the result, sends nothing
after(m, command_name, command_result) == <<>>

OffBeforeReturns == FALSE

\* the value `before` returns: the gate of the dispatch
before_returns == TRUE

OffDelayAction(m) == <<>>

\* async fn delay_action: let _ = msg.react(ctx, clock).await
delay_action(m) == << [kind |-> "react", text |-> "stopwatch"] >>

RetryText(secs) == "Try this again in " \o ToString(secs) \o " seconds."

OffDispatchError(m, error) ==
  IF error.kind = "Ratelimited"
    THEN << [kind |-> "say", text |-> RetryText(error.secs)] >>
    ELSE <<>>

\* async fn dispatch_error: notifies only when info.is_first_try
dispatch_error(m, error) ==
  IF error.kind = "Ratelimited"
    THEN IF error.is_first_try
           THEN << [kind |-> "say", text |-> RetryText(error.secs)] >>
           ELSE <<>>
    ELSE <<>>

\* a send is attempted and the platform accepts it or not
Attempt(sends, ok) == [k \in DOMAIN sends |->
                         [kind |-> sends[k].kind, text |-> sends[k].text, ok |-> ok]]

(* ----------------------------- rate limiter ---------------------------- *)
OffScopeKey(m) == "c1"

\* limit_for(LimitedFor::Channel): the scope-key of a message is its channel
ScopeKey(m) == m.channel

Expired(w, t) == ~w.exists \/ t - w.window_start >= BucketTimeSpan

\* the window the check works on: a fresh one when none exists or it expired
Window(w, t) ==
  IF Expired(w, t)
    THEN [exists |-> TRUE, used_count |-> 0, window_start |-> t, rejected |-> FALSE]
    ELSE w

\* check_and_consume: <<window state after the check, admission>>
check_and_consume(w, t) ==
  LET cur == Window(w, t) IN
  IF cur.used_count < BucketLimit
    THEN << [cur EXCEPT !.used_count = @ + 1], [allowed |-> TRUE, is_first_try |-> FALSE, retry_after |-> 0] >>
    ELSE << [cur EXCEPT !.rejected = TRUE],
            [allowed |-> FALSE, is_first_try |-> ~cur.rejected,
             retry_after |-> cur.window_start + BucketTimeSpan - t] >>

(* ------------------------------ dispatcher ----------------------------- *)
\* what is left of an invocation once its dispatch has ended
Ended(r, outcome) ==
  [outcome |-> outcome, content |-> r.content, name |-> r.name,
   error |-> r.error, result |-> r.result,
   trace |-> r.trace, sent |-> r.sent]

\* the dispatch of invocation i ends with record r
Finish(i, r, outcome) ==
  /\ inv' = [inv EXCEPT ![i] = Idle]
  /\ last' = Ended(r, outcome)

\* the dispatch of invocation i goes on with record r
Continue(i, r) ==
  /\ inv' = [inv EXCEPT ![i] = r]
  /\ UNCHANGED last

\* steps 1 and 2: prefix match, then the command name is parsed
Recv(i, content, ch) ==
  /\ mainpc = "running"
  /\ nmsgs < MaxMsgs
  /\ inv[i].pc = "idle"
  /\ \A j \in Slots : j < i => inv[j].pc # "idle"
  /\ nmsgs' = nmsgs + 1
  /\ LET m == [Idle EXCEPT !.content = content, !.channel = ch] IN
     IF ~HasPrefix(content)
       THEN /\ Finish(i, [m EXCEPT !.trace = IF NormalMessageHook
                                               THEN <<"normal_message">> ELSE <<>>,
                                   !.sent = Attempt(normal_message(m), TRUE)],
                      "NotACommand")
            /\ UNCHANGED attempts
       ELSE /\ Continue(i, [m EXCEPT !.name = ParseName(content), !.pc = "before"])
            /\ attempts' = [attempts EXCEPT ![ParseName(content)] = @ + 1]
  /\ UNCHANGED <<procVars, counter, lock, bucketVars>>

OffOrInsert(map, key, value) ==
  IF key \in DOMAIN map THEN map ELSE map @@ (key :> value + 1)

or_insert(map, key, value) ==
  IF key \in DOMAIN map THEN map ELSE map @@ (key :> value)

OffBeforeEntry(i) ==
  /\ inv[i].pc = "before"
  /\ counter' = or_insert(counter, inv[i].name, 0)
  /\ lock' = i
  /\ Continue(i, [inv[i] EXCEPT !.pc = "before_incr", !.trace = Append(@, "before"),
                                !.entry = counter'[inv[i].name]])
  /\ UNCHANGED <<procVars, bucketVars, attempts, nmsgs>>

\* step 3, the before hook:
\*   let mut data = ctx.data.write().await;
\*   let counter = data.get_mut::<CommandCounter>().expect(..);
\*   let entry = counter.entry(command_name.to_string()).or_insert(0);
BeforeEntry(i) ==
  /\ inv[i].pc = "before"
  /\ lock = 0
  /\ LET r == [inv[i] EXCEPT !.trace = Append(@, "before")] IN
     IF "CommandCounter" \in data
       THEN /\ counter' = or_insert(counter, r.name, 0)
            /\ lock' = i
            /\ Continue(i, [r EXCEPT !.pc = "before_incr", !.entry = counter'[r.name]])
       ELSE /\ Finish(i, r, "Panicked")
            /\ UNCHANGED <<counter, lock>>
  /\ UNCHANGED <<procVars, bucketVars, attempts, nmsgs>>

OffBeforeIncrKnownOnly(i) ==
  /\ inv[i].pc = "before_incr"
  /\ counter' = IF inv[i].name \in Commands
                  THEN [counter EXCEPT ![inv[i].name] = inv[i].entry + 1]
                  ELSE counter
  /\ lock' = 0
  /\ Continue(i, [inv[i] EXCEPT !.pc = "lookup", !.entry = 0])
  /\ UNCHANGED <<procVars, bucketVars, attempts, nmsgs>>

OffBeforeIncrKeepsLock(i) ==
  /\ inv[i].pc = "before_incr"
  /\ counter' = [counter EXCEPT ![inv[i].name] = inv[i].entry + 1]
  /\ Continue(i, [inv[i] EXCEPT !.pc = "lookup", !.entry = 0])
  /\ UNCHANGED <<procVars, lock, bucketVars, attempts, nmsgs>>

\* *entry += 1;  the guard is dropped and the hook returns true
BeforeIncr(i) ==
  /\ inv[i].pc = "before_incr"
  /\ counter' = [counter EXCEPT ![inv[i].name] = inv[i].entry + 1]
  /\ lock' = 0
  /\ IF before_returns
       THEN Continue(i, [inv[i] EXCEPT !.pc = "lookup", !.entry = 0])
       ELSE Finish(i, inv[i], "Suppressed")
  /\ UNCHANGED <<procVars, bucketVars, attempts, nmsgs>>

\* step 4: the name matches no registered command
Unknown(i) ==
  /\ inv[i].pc = "lookup"
  /\ inv[i].name \notin Commands
  /\ Finish(i, [inv[i] EXCEPT
                  !.trace = IF UnrecognisedCommandHook
                              THEN Append(@, "unknown_command") ELSE @,
                  !.sent = @ \o Attempt(unknown_command(inv[i], inv[i].name), TRUE)],
            "UnknownCommand")
  /\ UNCHANGED <<procVars, counter, lock, bucketVars, attempts, nmsgs>>

\* step 5: admission, when the command has a bucket
Admit(i) ==
  /\ inv[i].pc = "lookup"
  /\ inv[i].name \in Commands
  /\ IF framework.price_bucket = NoBucket
       THEN /\ Continue(i, [inv[i] EXCEPT !.pc = "handler"])
            /\ UNCHANGED <<bucket, hist>>
       ELSE LET key == ScopeKey(inv[i])
                res == check_and_consume(bucket[key], now)
                adm == res[2]
            IN /\ bucket' = [bucket EXCEPT ![key] = res[1]]
               /\ hist' = [hist EXCEPT ![inv[i].channel] =
                              Append(@, [t |-> now, allowed |-> adm.allowed,
                                         is_first_try |-> adm.is_first_try,
                                         w |-> res[1].window_start,
                                         used |-> res[1].used_count])]
               /\ Continue(i,
                     IF adm.allowed
                       THEN [inv[i] EXCEPT !.pc = "handler"]
                       ELSE [inv[i] EXCEPT !.pc = "rejected",
                                           !.error = [kind |-> "Ratelimited",
                                                      is_first_try |-> adm.is_first_try,
                                                      secs |-> adm.retry_after]])
  /\ UNCHANGED <<procVars, counter, lock, now, attempts, nmsgs>>

\* step 5, on rejection: the dispatch-error hook, then the bucket's delay_action
Reject(i, ok) ==
  /\ inv[i].pc = "rejected"
  /\ Finish(i, [inv[i] EXCEPT
                  !.trace = (IF framework.on_dispatch_error
                               THEN Append(@, "dispatch_error") ELSE @)
                            \o <<"delay_action">>,
                  !.sent = @ \o Attempt((IF framework.on_dispatch_error
                                           THEN dispatch_error(inv[i], inv[i].error)
                                           ELSE <<>>)
                                        \o delay_action(inv[i]), ok)],
            "RateLimited")
  /\ UNCHANGED <<procVars, counter, lock, bucketVars, attempts, nmsgs>>

\* the clock advances; the admission check alone reads it, so it is let
\* advance only while a check is pending
Tick(d) ==
  /\ mainpc = "running"
  /\ \E i \in Slots : inv[i].pc = "lookup"
  /\ now + d <= MaxTime
  /\ now' = now + d
  /\ UNCHANGED <<procVars, counter, lock, bucket, hist, attempts, nmsgs, inv, last>>

(* ---------------------------- price handler ---------------------------- *)
\* serde_json::Value, as far as the handler looks into it
Null     == [t |-> "null"]
Str(x)   == [t |-> "str", s |-> x]
Num(x)   == [t |-> "num", n |-> x]
Obj(f)   == [t |-> "obj", f |-> f]

\* Value's Index<&str>: Null unless the value is an object holding the key
Index(v, key) == IF v.t = "obj" /\ key \in DOMAIN v.f THEN v.f[key] ELSE Null

\* Value::as_str
IsStr(v) == v.t = "str"

Prices == {"2500.12", "1893.5"}

QuoteBody(p) == [text |-> "json", value |-> Obj("result" :> Obj("ethusd" :> Str(p)))]

Bodies == { QuoteBody(p) : p \in Prices } \cup
          { [text |-> "garbage"],
            [text |-> "json", value |-> Obj("result" :> Str("Invalid API Key"))],
            [text |-> "json", value |-> Obj("result" :> Obj("ethusd" :> Num(2500)))] }

Statuses == {200, 204, 500}

\* what the price API may answer; the body is read under status 200 alone
Responses == { [status |-> 200, body |-> b] : b \in Bodies } \cup
             { [status |-> st, body |-> QuoteBody("2500.12")] : st \in Statuses }

IsSuccess(status) == status >= 200 /\ status <= 299

\* serde_json::from_str(&body) succeeds
Parses(body) == body.text = "json"

\* json["result"]["ethusd"]
EthUsd(body) == Index(Index(body.value, "result"), "ethusd")

PriceText(p) == "The current price of ETH is $" \o p

FailureText == "Something went wrong"

OffStatusOk(status) == IsSuccess(status)

\* match response.status() { reqwest::StatusCode::OK => .., _ => .. }
StatusOk(status) == status = 200

OffPriceRequest(i, arrived, response) ==
  /\ inv[i].pc = "handler"
  /\ LET r == [inv[i] EXCEPT !.trace = Append(@, "price")] IN
     IF "ETHERSCAN_API_KEY" \in env /\ arrived
       THEN /\ Continue(i, [r EXCEPT !.pc = "respond", !.resp = response])
            /\ UNCHANGED mainpc
       ELSE /\ Finish(i, r, "Panicked")
            /\ mainpc' = "panicked"
  /\ UNCHANGED <<env, data, framework, counter, lock, bucketVars, attempts, nmsgs>>

\* let etherscan_api_key = dotenv::var("ETHERSCAN_API_KEY").unwrap();
\* client.get(..).send().await.unwrap(): the request fails or a response arrives
PriceRequest(i, arrived, response) ==
  /\ inv[i].pc = "handler"
  /\ LET r == [inv[i] EXCEPT !.trace = Append(@, "price")] IN
     IF "ETHERSCAN_API_KEY" \in env /\ arrived
       THEN Continue(i, [r EXCEPT !.pc = "respond",
                                  !.resp = response])
       ELSE Finish(i, r, "Panicked")
  /\ UNCHANGED <<procVars, counter, lock, bucketVars, attempts, nmsgs>>

\* msg.reply(&ctx.http, text).await?  and, when it went through, Ok(())
Replied(r, text, ok) ==
  [r EXCEPT !.pc = "after", !.resp = NoResp,
            !.sent = @ \o Attempt(<< [kind |-> "reply", text |-> text] >>, ok),
            !.result = IF ok THEN "Ok" ELSE "Err"]

\* the match on the status, the reply and the handler's result
PriceReply(i, ok) ==
  /\ inv[i].pc = "respond"
  /\ LET r == inv[i].resp IN
     IF StatusOk(r.status)
       THEN IF Parses(r.body) /\ IsStr(EthUsd(r.body))
              THEN Continue(i, Replied(inv[i], PriceText(EthUsd(r.body).s), ok))
              ELSE Finish(i, [inv[i] EXCEPT !.resp = NoResp], "Panicked")
       ELSE Continue(i, Replied(inv[i], FailureText, ok))
  /\ UNCHANGED <<procVars, counter, lock, bucketVars, attempts, nmsgs>>

\* step 7: the after hook, once the handler has returned
After(i) ==
  /\ inv[i].pc = "after"
  /\ Finish(i, [inv[i] EXCEPT
                  !.trace = IF AfterHook THEN Append(@, "after") ELSE @,
                  !.sent = @ \o Attempt(after(inv[i], inv[i].name, inv[i].result), TRUE)],
            "Handled")
  /\ UNCHANGED <<procVars, counter, lock, bucketVars, attempts, nmsgs>>

(* --------------------------- specifications ---------------------------- *)
Main == MainToken \/ MainClient \/ MainData \/ MainStart

\* the price API is mocked to answer 200 with a quote
MockedQuote == [status |-> 200, body |-> QuoteBody("2500.12")]

BucketContents == { <<"!", "price">> }

\* without a bucket the channel of a message plays no part
OneChannel == {"c1"}

Next ==
  \/ Main
  \/ \E i \in Slots, content \in Contents, ch \in OneChannel : Recv(i, content, ch)
  \/ \E i \in Slots : BeforeEntry(i)
  \/ \E i \in Slots : BeforeIncr(i)
  \/ \E i \in Slots : Unknown(i)
  \/ \E i \in Slots : Admit(i)
  \/ \E i \in Slots, arrived \in BOOLEAN, response \in Responses :
        PriceRequest(i, arrived, response)
  \/ \E i \in Slots, ok \in BOOLEAN : PriceReply(i, ok)
  \/ \E i \in Slots : After(i)

\* the program as main builds it
Spec == Init /\ [][Next]_vars

NextBucket ==
  \/ Main
  \/ \E i \in Slots, content \in BucketContents, ch \in Channels : Recv(i, content, ch)
  \/ \E i \in Slots : BeforeEntry(i)
  \/ \E i \in Slots : BeforeIncr(i)
  \/ \E i \in Slots : Admit(i)
  \/ \E i \in Slots : PriceRequest(i, TRUE, MockedQuote)
  \/ \E i \in Slots, ok \in BOOLEAN : PriceReply(i, ok)
  \/ \E i \in Slots : After(i)
  \/ \E i \in Slots, ok \in BOOLEAN : Reject(i, ok)
  \/ \E d \in TickSteps : Tick(d)

\* the dispatch pipeline with the command attached to the "complicated" bucket
SpecBucket == InitBucket /\ [][NextBucket]_vars

(* ------------------------------- claims -------------------------------- *)
\* before hooks of name n that have been started by a message and not finished
InBefore(n) ==
  Cardinality({ i \in Slots : inv[i].pc \in {"before", "before_incr"} /\ inv[i].name = n })

\* C1: after N invocation attempts of a name, admitted or rejected, the
\* CommandCounter entry of that name is N (attempts whose before hook is still
\* running are not yet counted); a name never attempted has no entry
C1_CounterEqualsAttempts ==
  \A n \in Names :
    /\ attempts[n] = 0 => n \notin DOMAIN counter
    /\ n \in DOMAIN counter => counter[n] = attempts[n] - InBefore(n)
    /\ n \notin DOMAIN counter => attempts[n] = InBefore(n)

\* three attempts of price are counted, the last of them rejected
C1_Witness ==
  /\ "price" \in DOMAIN counter
  /\ counter["price"] = 3
  /\ attempts["price"] = 3
  /\ last.outcome = "RateLimited"

\* the position of check k of channel c among the checks of its window
InWindow(c, k) ==
  Cardinality({ j \in 1..k : hist[c][j].w = hist[c][k].w })

\* C2: in any window of the bucket with capacity 2 and window 30 s, a channel's
\* first two checks are Allowed, the third is Rejected with is_first_try, and
\* every later one is Rejected without is_first_try
C2_TwoAllowedThenRejected ==
  \A c \in Channels : \A k \in 1..Len(hist[c]) :
    LET h == hist[c][k]
        n == InWindow(c, k)
    IN /\ n <= 2 => h.allowed
       /\ n = 3 => ~h.allowed /\ h.is_first_try
       /\ n > 3 => ~h.allowed /\ ~h.is_first_try

\* a channel made four checks in one window
C2_Witness ==
  \E c \in Channels : Len(hist[c]) >= 4 /\ InWindow(c, 4) = 4

\* C3: a check made once the window has elapsed (now - window_start >= 30)
\* starts a new window at now, counts from zero and is Allowed, whatever
\* happened in the window before
C3_ElapsedWindowResets ==
  \A c \in Channels : \A k \in 2..Len(hist[c]) :
    hist[c][k].t - hist[c][k-1].w >= 30 =>
      /\ hist[c][k].allowed
      /\ hist[c][k].w = hist[c][k].t
      /\ hist[c][k].used = 1

\* a check after the window elapsed, the window before it having ended in a rejection
C3_Witness ==
  \E c \in Channels : \E k \in 2..Len(hist[c]) :
    /\ hist[c][k].t - hist[c][k-1].w >= 30
    /\ ~hist[c][k-1].allowed
    /\ hist[c][k].allowed

\* the bucket state of one scope-key after the checks made at the given times
RECURSIVE ReplayState(_, _)
ReplayState(w, checks) ==
  IF checks = <<>> THEN w
  ELSE ReplayState(check_and_consume(w, Head(checks).t)[1], Tail(checks))

\* the admission of check k when a channel's checks are replayed alone
ReplayAdmission(c, k) ==
  check_and_consume(ReplayState(NoWindow, SubSeq(hist[c], 1, k - 1)), hist[c][k].t)[2]

\* C4: with scope Channel the state of channel A is what A's own checks made
\* it, and each admission of A is the one A's own checks give, whatever the
\* other channels have done
C4_PartitionedByChannel ==
  \A c \in Channels :
    /\ bucket[c] = ReplayState(NoWindow, hist[c])
    /\ \A k \in 1..Len(hist[c]) :
         /\ hist[c][k].allowed = ReplayAdmission(c, k).allowed
         /\ hist[c][k].is_first_try = ReplayAdmission(c, k).is_first_try

\* c2 is admitted after c1 has used up its window
C4_Witness ==
  /\ Len(hist["c1"]) >= 3
  /\ ~hist["c1"][3].allowed
  /\ Len(hist["c2"]) >= 1
  /\ hist["c2"][Len(hist["c2"])].allowed
  /\ bucket["c2"].used_count = 1
  /\ bucket["c1"].rejected

\* a content that does not start with the prefix `!`
Plain(content) == content = <<>> \/ content[1] # "!"

PlainEndsNotACommand ==
  (last.outcome # "none" /\ Plain(last.content)) =>
    /\ last.outcome = "NotACommand"
    /\ last.trace = <<"normal_message">>
    /\ last.sent = <<>>
    /\ last.result = "none"

\* the step that takes in a message without starting an invocation
PlainStep ==
  /\ nmsgs' # nmsgs
  /\ Plain(last'.content)
  /\ \A i \in Slots : inv'[i].pc = inv[i].pc

\* C5: the dispatch of a message without the prefix `!` changes no
\* CommandCounter entry and no bucket state, runs the normal-message hook alone
\* and ends NotACommand
C5_UnprefixedTouchesNothing ==
  [][ /\ PlainEndsNotACommand'
      /\ PlainStep => UNCHANGED <<counter, attempts, bucket, hist, lock>> ]_vars

\* an unprefixed message was dispatched after a command had been counted
C5_Witness ==
  /\ last.outcome = "NotACommand"
  /\ last.content = <<"price">>
  /\ "price" \in DOMAIN counter
  /\ counter["price"] = 1

\* C6: a prefixed message naming no registered command goes to the
\* unknown-command hook, sends nothing, runs no handler and no after hook, and
\* ends UnknownCommand
C6_UnknownCommandHookOnly ==
  (/\ last.outcome # "none"
   /\ Len(last.content) >= 2
   /\ last.content[1] = "!"
   /\ last.content[2] # "price") =>
    /\ last.outcome = "UnknownCommand"
    /\ last.trace = <<"before", "unknown_command">>
    /\ last.sent = <<>>
    /\ last.result = "none"

\* the dispatch of `!unknown` has ended
C6_Witness ==
  /\ last.outcome = "UnknownCommand"
  /\ last.content = <<"!", "unknown">>

\* the price handler of invocation i returns in this step
Returned(i) == inv[i].pc = "respond" /\ inv'[i].pc = "after"

\* what invocation i sends in this step
NewSends(i) == SubSeq(inv'[i].sent, Len(inv[i].sent) + 1, Len(inv'[i].sent))

QuotedPrice(body) == body.value.f["result"].f["ethusd"].s

\* C7, as amended: a price handler that returns has attempted exactly one
\* reply, the price under status 200 and "Something went wrong" under every
\* other status, and returns Ok exactly when that reply went through
C7_ReplyChosenByStatus200 ==
  [][ \A i \in Slots : Returned(i) =>
        LET r == inv[i].resp
            out == NewSends(i)
        IN /\ Len(out) = 1
           /\ out[1].kind = "reply"
           /\ out[1].text = IF r.status = 200
                              THEN "The current price of ETH is $" \o QuotedPrice(r.body)
                              ELSE "Something went wrong"
           /\ inv'[i].result = IF out[1].ok THEN "Ok" ELSE "Err" ]_vars

\* the handler has returned an error after the failure reply did not go through
C7_Witness ==
  \E i \in Slots :
    /\ inv[i].pc = "after"
    /\ inv[i].result = "Err"
    /\ inv[i].sent = << [kind |-> "reply", text |-> "Something went wrong", ok |-> FALSE] >>

\* C7 as claimed: the price on every success status, and on a non-success
\* status the failure reply with the handler returning success
C7_Original ==
  [][ \A i \in Slots : Returned(i) =>
        LET r == inv[i].resp
            out == NewSends(i)
            success == r.status >= 200 /\ r.status <= 299
        IN /\ Len(out) = 1
           /\ success => out[1].text = "The current price of ETH is $" \o QuotedPrice(r.body)
           /\ ~success => /\ out[1].text = "Something went wrong"
                          /\ inv'[i].result = "Ok" ]_vars

Says(rec) == { k \in 1..Len(rec.sent) : rec.sent[k].kind = "say" }

\* C8: the dispatch-error hook says "Try this again in N seconds." exactly when
\* is_first_try holds, and a scope-key is rejected with is_first_try at most
\* once in a window
C8_NotifiedOnFirstTryOnly ==
  /\ last.outcome = "RateLimited" =>
       /\ Says(last) # {} <=> last.error.is_first_try
       /\ \A k \in Says(last) :
            last.sent[k].text =
              "Try this again in " \o ToString(last.error.secs) \o " seconds."
  /\ \A c \in Channels : \A j, k \in 1..Len(hist[c]) :
       (j < k /\ hist[c][j].w = hist[c][k].w /\ hist[c][j].is_first_try)
         => ~hist[c][k].is_first_try

\* a rejection that is not the first of its window has ended without a notice
C8_Witness ==
  /\ last.outcome = "RateLimited"
  /\ ~last.error.is_first_try
  /\ Says(last) = {}
  /\ last.sent # <<>>

\* the hooks a dispatch has run when it stands at each of its steps
TraceAt(r) ==
  CASE r.pc = "idle" -> r.trace = <<>>
    [] r.pc = "before" -> r.trace = <<>>
    [] r.pc \in {"before_incr", "lookup", "handler", "rejected"} -> r.trace = <<"before">>
    [] r.pc = "respond" -> r.trace = <<"before", "price">>
    [] r.pc = "after" -> r.trace = <<"before", "price">> /\ r.result \in {"Ok", "Err"}

C10_Original ==
  nmsgs > 0 => {"DISCORD_TOKEN", "ETHERSCAN_API_KEY"} \subseteq env

\* invocation i fails in this step: its handler panics, or returns an error
\* because its reply did not go through
Fails(i) ==
  \/ inv[i].pc \in {"handler", "respond"} /\ inv'[i].pc = "idle" /\ last'.outcome = "Panicked"
  \/ inv[i].pc = "respond" /\ inv'[i].pc = "after" /\ inv'[i].result = "Err"

\* C11: the failure of one invocation leaves the client running, the shared
\* state as it was and every other invocation where it stood, and never leaves
\* the lock on the shared data held
C11_FailureIsContained ==
  [][ \A i \in Slots : Fails(i) =>
        /\ mainpc' = "running"
        /\ UNCHANGED <<counter, lock, bucket, hist, attempts, data>>
        /\ lock # i
        /\ \A j \in Slots \ {i} : inv'[j] = inv[j] ]_vars

\* a handler has panicked while another invocation, past its before hook,
\* goes on in a running client
C11_Witness ==
  /\ last.outcome = "Panicked"
  /\ mainpc = "running"
  /\ \E j \in Slots : inv[j].pc = "after" /\ inv[j].result = "Ok"

\* C12: however the before hooks interleave, no update of the counter is
\* lost: the read-modify-write of an entry is made by the holder of the lock
\* alone, and once no before hook is running each entry is the number of
\* before hooks run for its name
C12_NoLostUpdate ==
  /\ \A i \in Slots : inv[i].pc = "before_incr" <=> lock = i
  /\ \A i \in Slots : inv[i].pc = "before_incr" =>
       /\ inv[i].name \in DOMAIN counter
       /\ counter[inv[i].name] = inv[i].entry
  /\ (\A i \in Slots : inv[i].pc \notin {"before", "before_incr"}) =>
       \A n \in Names :
         IF n \in DOMAIN counter THEN counter[n] = attempts[n] ELSE attempts[n] = 0

\* two before hooks of one name, one holding the lock and the other waiting
\* for it, after a first one has been counted
C12_Witness ==
  \E i, j \in Slots :
    /\ inv[i].pc = "before_incr"
    /\ inv[j].pc = "before"
    /\ inv[i].name = inv[j].name
    /\ inv[i].entry = 1

\* the steps at which an invocation does or awaits network I/O
AtIO(r) == r.pc \in {"handler", "respond", "after", "rejected"}

\* C13: no invocation holds the lock while it does or awaits network I/O, so
\* an invocation blocked on I/O keeps no other from taking it
C13_LockNotHeldAcrossIO ==
  \A i \in Slots : AtIO(inv[i]) => lock # i

\* an invocation awaits the price API while another holds the lock
C13_Witness ==
  \E i, j \in Slots :
    /\ inv[i].pc = "respond"
    /\ lock = j
    /\ j # i

Reacts(sent) == { k \in 1..Len(sent) : sent[k].kind = "react" }

\* C14: the delay_action of the bucket, the clock reaction, runs once on every
\* rejection, with is_first_try or without it, and never for an admitted
\* invocation
C14_DelayActionOnEveryRejection ==
  /\ last.outcome = "RateLimited" =>
       /\ Cardinality(Reacts(last.sent)) = 1
       /\ last.trace[Len(last.trace)] = "delay_action"
  /\ last.outcome = "Handled" => Reacts(last.sent) = {}
  /\ \A i \in Slots : Reacts(inv[i].sent) = {}

\* the first rejection of a window has ended with the notice and the reaction
C14_Witness ==
  /\ last.outcome = "RateLimited"
  /\ last.error.is_first_try
  /\ Says(last) # {}
  /\ Reacts(last.sent) # {}

\* C15: the before hook has counted a prefixed message before its name is
\* looked up, so a message naming an unknown command adds exactly one to the
\* entry of that name
C15_UnknownNamesAreCounted ==
  /\ \A i \in Slots : inv[i].pc = "lookup" =>
       /\ inv[i].trace = <<"before">>
       /\ inv[i].name \in DOMAIN counter
       /\ counter[inv[i].name] >= 1
  /\ last.outcome = "UnknownCommand" =>
       /\ last.name \in DOMAIN counter
       /\ counter[last.name] >= 1
  /\ IF "unknown" \in DOMAIN counter
       THEN counter["unknown"] = attempts["unknown"] - InBefore("unknown")
       ELSE attempts["unknown"] = InBefore("unknown")

\* two messages naming the unknown command have been dispatched and counted
C15_Witness ==
  /\ last.outcome = "UnknownCommand"
  /\ "unknown" \in DOMAIN counter
  /\ counter["unknown"] = 2
  /\ attempts["unknown"] = 2

\* a body that is no JSON, or has no string at result.ethusd
Malformed(body) == ~Parses(body) \/ ~IsStr(EthUsd(body))

\* C16 as claimed: on a body that cannot be parsed or lacks the string at
\* result.ethusd the handler replies "Something went wrong" and goes on
C16_Original ==
  [][ \A i \in Slots :
        (/\ inv[i].pc = "respond"
         /\ inv[i].resp.status = 200
         /\ Malformed(inv[i].resp.body)
         /\ inv'[i] # inv[i]) =>
          /\ inv'[i].pc = "after"
          /\ Len(NewSends(i)) = 1
          /\ NewSends(i)[1].text = "Something went wrong" ]_vars

\* C17: the used_count of every scope-key stays within 0..2: a check adds one
\* to it only below the capacity, and a rejection leaves it as it was
C17_UsedCountWithinCapacity ==
  \A c \in Channels :
    /\ bucket[c].used_count >= 0
    /\ bucket[c].used_count <= 2
    /\ \A k \in 1..Len(hist[c]) :
         IF hist[c][k].allowed
           THEN hist[c][k].used = InWindow(c, k) /\ hist[c][k].used <= 2
           ELSE hist[c][k].used = 2 /\ InWindow(c, k) > 2

\* a scope-key stands at the capacity after a rejection
C17_Witness ==
  \E c \in Channels :
    /\ bucket[c].used_count = 2
    /\ bucket[c].rejected
    /\ Len(hist[c]) >= 3

\* C18: the before hook returns true on every call: no dispatch ends
\* Suppressed, and every invocation leaves the hook for the lookup
C18_NeverSuppressed ==
  [][ /\ last'.outcome # "Suppressed"
      /\ \A i \in Slots :
           (inv[i].pc = "before_incr" /\ inv'[i] # inv[i]) => inv'[i].pc = "lookup" ]_vars

\* an invocation has passed the gate of the before hook
C18_Witness ==
  \E i \in Slots :
    /\ inv[i].pc = "lookup"
    /\ inv[i].trace = <<"before">>
    /\ lock = 0

\* C19: price has no bucket: no `!price` goes through an admission check or
\* ends RateLimited, and past the before hook each one runs the handler,
\* however many come from one channel at the same instant
C19_PriceIsNeverRateLimited ==
  /\ \A c \in Channels : hist[c] = <<>> /\ bucket[c] = NoWindow
  /\ last.outcome # "RateLimited"
  /\ \A i \in Slots :
       /\ inv[i].pc # "rejected"
       /\ inv[i].error = NoErr
  /\ (last.name = "price" /\ last.outcome # "none") =>
       /\ last.outcome \in {"Handled", "Panicked"}
       /\ Len(last.trace) >= 2
       /\ last.trace[2] = "price"

\* the fourth `!price` of one channel at one instant has run its handler
C19_Witness ==
  /\ "price" \in DOMAIN counter
  /\ counter["price"] = 4
  /\ now = 0
  /\ last.outcome = "Handled"
  /\ last.name = "price"
  /\ \A i \in Slots : inv[i].pc = "idle"

\* C20: the CommandCounter map is in the shared data before the client starts
\* and stays there, so the lookup of it in the before hook never fails
C20_CounterMapPresent ==
  /\ mainpc \in {"data", "start", "running"} => "CommandCounter" \in data
  /\ mainpc \in {"data", "start"} => counter = << >>
  /\ \A i \in Slots : inv[i].pc # "idle" => "CommandCounter" \in data
  /\ \A i \in Slots : inv[i].pc \in {"lookup", "handler", "respond", "after"} =>
       inv[i].name \in DOMAIN counter
  /\ last.outcome = "Panicked" => last.trace # <<"before">>

\* a before hook has found the map and holds its entry
C20_Witness ==
  \E i \in Slots :
    /\ inv[i].pc = "before_incr"
    /\ "CommandCounter" \in data
    /\ inv[i].name \in DOMAIN counter

====
